---- MODULE Spec2Model ----
(***************************************************************************)
(* The Jellyfin media player entity of                                     *)
(* homeassistant/components/jellyfin/media_player.py: the entity's fields, *)
(* the coordinator callback that refreshes them, the derived properties    *)
(* (state, available, supported_features, media_image_url) and the command *)
(* methods that forward to the Jellyfin remote-control API.                *)
(***************************************************************************)
EXTENDS Integers, Sequences, FiniteSets, TLC

(***************************************************************************)
(* Python values.  An optional value (x | None) is a sequence of length at *)
(* most one; a dict is a function on its keys.                             *)
(***************************************************************************)
None == <<>>

Some(v) == <<v>>

\* dict.get(key): the value, or None when the key is missing
Get(d, k) == IF k \in DOMAIN d THEN Some(d[k]) ELSE None

\* dict.get(key, default)
GetOr(d, k, default) == IF k \in DOMAIN d THEN d[k] ELSE default

(***************************************************************************)
(* Python floats: IEEE 754 binary64, round to nearest, ties to even.  A    *)
(* non-negative float is [sig, exp]: sig the 53 significand bits, most     *)
(* significant first, and the value is sig * 2^exp; zero has no bits.      *)
(***************************************************************************)
Precision == 53

FloatZero == [sig |-> <<>>, exp |-> 0]

Bit == {0, 1}

\* the binary digits of a natural number, most significant first
BitsOf[m \in Nat] == IF m = 0 THEN <<>> ELSE Append(BitsOf[m \div 2], m % 2)

BitsToNat[b \in Seq(Bit)] ==
  IF b = <<>> THEN 0
  ELSE 2 * BitsToNat[SubSeq(b, 1, Len(b) - 1)] + b[Len(b)]

\* b + 1; one bit longer when b is all ones
IncBits[b \in Seq(Bit)] ==
  IF b = <<>> THEN <<1>>
  ELSE IF b[Len(b)] = 0 THEN [b EXCEPT ![Len(b)] = 1]
  ELSE Append(IncBits[SubSeq(b, 1, Len(b) - 1)], 0)

PadBits[b \in Seq(Bit), w \in Nat] ==
  IF Len(b) >= w THEN b ELSE PadBits[Append(b, 0), w]

\* bits * 2^exp (plus a non-zero tail below the last bit when sticky), rounded
\* to Precision bits, ties to even
RoundToPrecision[bits \in Seq(Bit), exp \in Int, sticky \in BOOLEAN] ==
  IF Len(bits) <= Precision
  THEN [sig |-> PadBits[bits, Precision], exp |-> exp - (Precision - Len(bits))]
  ELSE LET kept == SubSeq(bits, 1, Precision)
           rest == SubSeq(bits, Precision + 1, Len(bits))
           drop == Len(rest)
           tail == sticky \/ \E i \in 2..drop : rest[i] = 1
           up   == rest[1] = 1 /\ (tail \/ kept[Precision] = 1)
           r    == IF up THEN IncBits[kept] ELSE kept
       IN IF Len(r) > Precision
          THEN [sig |-> SubSeq(r, 1, Precision), exp |-> exp + drop + 1]
          ELSE [sig |-> r, exp |-> exp + drop]

\* binary long division by b: quotient bits q and remainder r so far, until
\* the quotient is one bit longer than the precision
DivBits[q \in Seq(Bit), r \in Nat, b \in Nat, e \in Int] ==
  IF Len(q) > Precision THEN [bits |-> q, rem |-> r, exp |-> e]
  ELSE LET bit == IF 2 * r >= b THEN 1 ELSE 0
       IN DivBits[IF q = <<>> /\ bit = 0 THEN q ELSE Append(q, bit),
                  2 * r - bit * b, b, e - 1]

\* bits * c + carry, from the least significant bit up
MulBits[b \in Seq(Bit), c \in Nat, carry \in Nat] ==
  IF b = <<>> THEN BitsOf[carry]
  ELSE LET t == b[Len(b)] * c + carry
       IN Append(MulBits[SubSeq(b, 1, Len(b) - 1), c, t \div 2], t % 2)

\* int / int (true division): the float nearest to the exact quotient
TrueDiv[a \in Nat, b \in Nat] ==
  IF a = 0 THEN FloatZero
  ELSE LET d == DivBits[BitsOf[a \div b], a % b, b, 0]
       IN RoundToPrecision[d.bits, d.exp, d.rem # 0]

\* integer division by b of the number whose binary digits still to be read
\* are a, a digit at a time: quotient digits q and remainder r so far
LongDiv[a \in Seq(Bit), q \in Seq(Bit), r \in Nat, b \in Nat] ==
  IF a = <<>> THEN [quot |-> q, rem |-> r]
  ELSE LET t == 2 * r + Head(a)
           bit == IF t >= b THEN 1 ELSE 0
       IN LongDiv[Tail(a), IF q = <<>> /\ bit = 0 THEN q ELSE Append(q, bit),
                  t - bit * b, b]

\* int / int for an int of any size, given by its binary digits
BigTrueDiv[a \in Seq(Bit), b \in Nat] ==
  LET whole == LongDiv[a, <<>>, 0, b]
      d == DivBits[whole.quot, whole.rem, b, 0]
  IN IF whole.quot = <<>> /\ whole.rem = 0 THEN FloatZero
     ELSE RoundToPrecision[d.bits, d.exp, d.rem # 0]

\* float * int, the int converted exactly: the float nearest to the product
FloatMul(f, c) ==
  IF f.sig = <<>> \/ c = 0 THEN FloatZero
  ELSE RoundToPrecision[MulBits[f.sig, c, 0], f.exp, FALSE]

\* int(x) taking the nearest integer, not the one towards zero
FloatToIntNearest(f) ==
  LET w == Len(f.sig) + f.exp
  IN IF f.sig = <<>> \/ w < 0 THEN 0
     ELSE IF f.exp >= 0 THEN BitsToNat[f.sig] * (2 ^ f.exp)
     ELSE BitsToNat[SubSeq(f.sig, 1, w)] + f.sig[w + 1]

\* int(x): truncation towards zero
FloatToInt(f) ==
  LET w == Len(f.sig) + f.exp
  IN IF f.sig = <<>> \/ w <= 0 THEN 0
     ELSE IF f.exp >= 0 THEN BitsToNat[f.sig] * (2 ^ f.exp)
     ELSE BitsToNat[SubSeq(f.sig, 1, w)]

\* round(x): the nearest integer, ties to the even one
FloatRound(f) ==
  LET w == Len(f.sig) + f.exp
  IN IF f.sig = <<>> \/ w < 0 THEN 0
     ELSE IF f.exp >= 0 THEN BitsToNat[f.sig] * (2 ^ f.exp)
     ELSE LET whole == BitsToNat[SubSeq(f.sig, 1, w)]
              frac  == SubSeq(f.sig, w + 1, Len(f.sig))
              tail  == \E i \in 2..Len(frac) : frac[i] = 1
              up    == frac[1] = 1 /\ (tail \/ whole % 2 = 1)
          IN IF up THEN whole + 1 ELSE whole



(***************************************************************************)
(* Bounds of the model.                                                    *)
(***************************************************************************)
\* command methods called in a run; each may still be waiting for the server
\* when the next is called
MaxCalls == 2

\* browse requests in a run
MaxBrowse == 2

\* the longest duration and position tried, in seconds: a year
MaxTickSeconds == 31536000

\* numerators of the seek positions tried
MaxSeekNum == 45

(***************************************************************************)
(* Program constants.                                                      *)
(***************************************************************************)
\* ticks (100 ns) per second: the literal 10000000
TicksPerSecond == 10000000

\* the server's volume range 0..100: the literal 100
VolumeScale == 100

\* the third argument of artwork(): the literal 100
ArtworkMaxWidth == 100

STATE_OFF == "off"

STATE_IDLE == "idle"

STATE_PAUSED == "paused"

STATE_PLAYING == "playing"

\* MediaType members used by the projection
MediaTypeEPISODE == "episode"

MediaTypeTVSHOW == "tvshow"

\* .const.CONTENT_TYPE_MAP: server item type -> media type
CONTENT_TYPE_MAP ==
  [Audio |-> "music", Episode |-> MediaTypeEPISODE, Season |-> "season",
   Series |-> MediaTypeTVSHOW, Movie |-> "movie"]

\* .const.ITEM_KEY_IMAGE_TAGS
ITEM_KEY_IMAGE_TAGS == "ImageTags"

\* MediaPlayerEntityFeature: the mask is kept as the set of its flags
MediaControlFeatures == {"BROWSE_MEDIA", "PLAY_MEDIA", "PAUSE", "PLAY", "STOP"}

AllFeatures == MediaControlFeatures \cup {"VOLUME_MUTE", "VOLUME_SET", "SEEK"}

\* homeassistant.util.dt.parse_datetime: the datetime a timestamp string
\* denotes, None when the string is no timestamp
Timestamps ==
  [t \in {"2022-10-14T12:00:00.0000000Z"} |->
     [year |-> 2022, month |-> 10, day |-> 14, hour |-> 12, minute |-> 0, second |-> 0]]

parse_datetime(str) == Get(Timestamps, str)

\* jellyfin.artwork(item_id, art, max_width): the image URL, by its parts
artwork(item_id, art, max_width) ==
  [item |-> item_id, image |-> art, maxwidth |-> max_width]

(***************************************************************************)
(* Inputs: the session snapshots the coordinator may deliver.              *)
(***************************************************************************)
SessionId == "SESSION-UUID"

\* a tick count, a Python int of any size, by its binary digits (most
\* significant first): seconds * 10000000 + rest
Ticks(seconds, rest) == MulBits[BitsOf[seconds], TicksPerSecond, rest]

OtherSessionId == "OTHER-SESSION-UUID"

\* jellyfin_data.client_device_id, and the sessions the integration opens
client_device_id == "CLIENT-DEVICE-UUID"

OwnSessionId == "OWN-SESSION-UUID"

HomeAssistantSessionId == "HA-SESSION-UUID"

\* a dict with the key only when the optional value is present
Opt(key, o) == IF o = None THEN <<>> ELSE key :> o[1]

Session(caps, item, ps) ==
  [DeviceId |-> "DEVICE-UUID", DeviceName |-> "JELLYFIN-DEVICE",
   Client |-> "Jellyfin", ApplicationVersion |-> "1.0.0",
   Capabilities |-> caps,
   LastPlaybackCheckIn |-> "2022-10-14T12:00:00.0000000Z"]
  @@ Opt("NowPlayingItem", item) @@ Opt("PlayState", ps)

CapsControl ==
  [SupportsMediaControl |-> TRUE, SupportsPersistentIdentifier |-> TRUE,
   SupportedCommands |-> <<"Mute", "VolumeSet">>]

CapsPlain ==
  [SupportsMediaControl |-> FALSE, SupportsPersistentIdentifier |-> FALSE,
   SupportedCommands |-> <<>>]

\* every presence and value of the two capability fields the mask reads
FeatureCaps ==
  {Opt("SupportsMediaControl", smc) @@ Opt("SupportedCommands", cmds) :
     smc \in {None, Some(TRUE), Some(FALSE)},
     cmds \in {None, Some(<<>>), Some(<<"Mute">>), Some(<<"VolumeSet">>),
               Some(<<"Mute", "VolumeSet">>)}}

EpisodeItem ==
  [Type |-> "Episode", Id |-> "EPISODE-UUID", Name |-> "EPISODE",
   RunTimeTicks |-> Ticks(123, 4567890), ImageTags |-> [Primary |-> "tag-p"],
   SeriesName |-> "SERIES", ParentIndexNumber |-> 2, IndexNumber |-> 5,
   ParentBackdropItemId |-> "SERIES-UUID"]

MovieItem ==
  [Type |-> "Movie", Id |-> "MOVIE-UUID", Name |-> "MOVIE",
   RunTimeTicks |-> Ticks(60, 0), ImageTags |-> [Backdrop |-> "tag-b"]]

\* every combination of the image tags and the parent backdrop, for an
\* episode, a movie and an item of a type the table does not map
ImageTagSets ==
  {<<>>, [Backdrop |-> "tag-b"], [Primary |-> "tag-p"],
   [Backdrop |-> "tag-b", Primary |-> "tag-p"]}

ArtworkItems ==
  {[Type |-> ty, Id |-> "ITEM-UUID", Name |-> "ITEM", RunTimeTicks |-> Ticks(60, 0),
    ImageTags |-> tags] @@ Opt("ParentBackdropItemId", parent) :
     ty \in {"Episode", "Movie", "Trailer"}, tags \in ImageTagSets,
     parent \in {None, Some("PARENT-UUID")}}

PausedState ==
  [PositionTicks |-> Ticks(4, 5678901), IsPaused |-> TRUE, IsMuted |-> TRUE,
   VolumeLevel |-> 50, CanSeek |-> TRUE]

PlayingState ==
  [PositionTicks |-> Ticks(60, 0), IsPaused |-> FALSE, IsMuted |-> FALSE,
   VolumeLevel |-> 29, CanSeek |-> FALSE]

CorePlayStates ==
  {None, Some(<<>>), Some(PausedState), Some(PlayingState),
   Some([PositionTicks |-> Ticks(4, 5678901)]), Some([CanSeek |-> TRUE])}

CoreSnapshots ==
  {Session(CapsControl, item, ps) :
     item \in {None, Some(EpisodeItem), Some(MovieItem)}, ps \in CorePlayStates}

\* coordinator.data for a set of snapshots of this session: absent, without
\* this session, and with it (alone or beside another session)
DatasOf(snaps) ==
  {None, Some(<<>>), Some(OtherSessionId :> Session(CapsControl, Some(MovieItem), Some(PausedState)))}
  \cup {Some(SessionId :> snap) : snap \in snaps}
  \cup {Some(SessionId :> Session(CapsPlain, None, None)
             @@ OtherSessionId :> Session(CapsControl, Some(MovieItem), Some(PausedState)))}

CoreDatas == DatasOf(CoreSnapshots)

\* the sessions a server lists: two players, a session of the integration's
\* own device, and a session of another Home Assistant
SetupSessions ==
  SessionId :> {Session(CapsControl, Some(MovieItem), Some(PlayingState)),
                Session(CapsControl, None, None)}
  @@ OtherSessionId :>
       {[Session(CapsPlain, Some(EpisodeItem), Some(PausedState))
           EXCEPT !["DeviceId"] = "OTHER-DEVICE-UUID"]}
  @@ OwnSessionId :>
       {[Session(CapsControl, None, None) EXCEPT !["DeviceId"] = client_device_id]}
  @@ HomeAssistantSessionId :>
       {[Session(CapsControl, None, None)
           EXCEPT !["DeviceId"] = "HA-DEVICE-UUID", !["Client"] = "Home Assistant"]}

\* the coordinator's data over every subset of those sessions
SetupDatas ==
  {None}
  \cup UNION {{Some(d) : d \in {f \in [sids -> UNION {SetupSessions[sid] : sid \in sids}] :
                                      \A sid \in sids : f[sid] \in SetupSessions[sid]}}
               : sids \in SUBSET DOMAIN SetupSessions}

ArtworkSnapshots ==
  {Session(CapsControl, item, ps) :
     item \in {None} \cup {Some(it) : it \in ArtworkItems},
     ps \in {None, Some(PausedState)}}

ArtworkDatas == DatasOf(ArtworkSnapshots)

FeaturePlayStates ==
  {None, Some(<<>>), Some([CanSeek |-> TRUE]), Some([CanSeek |-> FALSE]),
   Some([IsPaused |-> TRUE]), Some(PausedState)}

\* the snapshots an entity is constructed from, and the ones delivered later
FeatureSnapshots ==
  {Session(caps, Some(MovieItem), Some(PausedState)) : caps \in FeatureCaps}

FeatureDatas == DatasOf(FeatureSnapshots)

FeatureUpdates ==
  DatasOf({Session(CapsPlain, item, ps) :
             item \in {None, Some(MovieItem)}, ps \in FeaturePlayStates})

\* every subset of the optional fields of an item and of a PlayState, and
\* items that lack a field the code reads by subscript
SubDict(d, keys) == IF keys = {} THEN <<>> ELSE [k \in keys |-> d[k]]

OptionalItemFields ==
  {"SeriesName", "ParentIndexNumber", "IndexNumber", "ParentBackdropItemId"}

OptionalPlayStateFields ==
  {"PositionTicks", "IsPaused", "IsMuted", "VolumeLevel", "CanSeek"}

PartialItems ==
  {SubDict(EpisodeItem, (DOMAIN EpisodeItem \ OptionalItemFields) \cup keys) :
     keys \in SUBSET OptionalItemFields}

BrokenItems ==
  {SubDict(EpisodeItem, DOMAIN EpisodeItem \ {k}) : k \in {"Name", ITEM_KEY_IMAGE_TAGS}}

PartialPlayStates ==
  {SubDict(PausedState, keys) : keys \in SUBSET OptionalPlayStateFields}

\* every subset of either kind, beside the other kind absent, empty and whole
PartialSnapshots ==
  {Session(CapsControl, item, ps) :
     item \in {None} \cup {Some(it) : it \in PartialItems},
     ps \in {None, Some(<<>>), Some(PausedState)}}
  \cup {Session(CapsControl, item, ps) :
          item \in {None, Some(SubDict(EpisodeItem, DOMAIN EpisodeItem \ OptionalItemFields)),
                    Some(EpisodeItem)},
          ps \in {None} \cup {Some(p) : p \in PartialPlayStates}}
  \cup {Session(CapsControl, Some(it), Some(PausedState)) : it \in BrokenItems}

PartialDatas == DatasOf(PartialSnapshots)

\* an item of every type of the table, and of a type the table lacks
ItemTypes == DOMAIN CONTENT_TYPE_MAP \cup {"Trailer"}

TypedItems == {[MovieItem EXCEPT !["Type"] = ty] : ty \in ItemTypes}

TypedSnapshots ==
  {Session(CapsControl, item, ps) :
     item \in {None} \cup {Some(it) : it \in TypedItems},
     ps \in {None, Some(PausedState), Some(PlayingState)}}

TypedDatas == DatasOf(TypedSnapshots)

\* tick counts: whole seconds up to a year, with a rest of no tick, one
\* tick, half a second and one tick less than a second
TickSeconds == {0, 1, 59, 214, 215, 1000, 86399, MaxTickSeconds}

TickRests == {0, 1, 5000000, 9999999}

TickTable == [p \in TickSeconds \X TickRests |-> Ticks(p[1], p[2])]

\* an item without a PlayState, an item played to its end, and a position
\* without an item
TickSnapshots ==
  {Session(CapsControl, Some([MovieItem EXCEPT !["RunTimeTicks"] = TickTable[p]]), None) :
     p \in DOMAIN TickTable}
  \cup {Session(CapsControl, Some([MovieItem EXCEPT !["RunTimeTicks"] = TickTable[p]]),
                Some([PausedState EXCEPT !["PositionTicks"] = TickTable[p]])) :
          p \in DOMAIN TickTable}
  \cup {Session(CapsControl, None, Some([PositionTicks |-> TickTable[p]])) :
          p \in DOMAIN TickTable}

TickDatas == {Some(SessionId :> snap) : snap \in TickSnapshots}

VolumeLevels == 0..VolumeScale

VolumeSnapshots ==
  {Session(CapsControl, Some(MovieItem), Some([VolumeLevel |-> lvl, IsPaused |-> FALSE])) :
     lvl \in VolumeLevels}

VolumeDatas == {Some(SessionId :> snap) : snap \in VolumeSnapshots}

\* int / int as the projection computes it; the quotients of the inputs
\* above are computed once
QuotientInputs == {<<lvl, VolumeScale>> : lvl \in VolumeLevels}

Quotients == [q \in QuotientInputs |-> TrueDiv[q[1], q[2]]]

FloatDiv(a, b) ==
  IF <<a, b>> \in QuotientInputs THEN Quotients[<<a, b>>] ELSE TrueDiv[a, b]

\* ticks / 10000000 as the projection computes it; the quotients of the tick
\* counts above are computed once
TickInputs ==
  {Ticks(123, 4567890), Ticks(60, 0), Ticks(4, 5678901)}
  \cup {TickTable[p] : p \in DOMAIN TickTable}

TickQuotients == [t \in TickInputs |-> BigTrueDiv[t, TicksPerSecond]]

TicksToSeconds(t) ==
  IF t \in TickInputs THEN TickQuotients[t] ELSE BigTrueDiv[t, TicksPerSecond]

\* command arguments: seek positions k/100 s and k/20000000 s (half ticks),
\* volumes in eighths and in hundredths
SeekPositions ==
  {TrueDiv[k, d] : k \in 0..MaxSeekNum, d \in {1, 100, 20000000}}

CoreSeekPositions == {TrueDiv[41, 100]}

VolumeArguments == {TrueDiv[k, 8] : k \in 0..8}

CoreVolumeArguments == {TrueDiv[29, 100]}

MediaIds == {"MOVIE-UUID"}

\* the content id async_browse_media takes for the root
RootContentId == "media-source://jellyfin"

\* browse requests: the content type and the content id, each str | None
BrowseContentTypes == {None, Some("collection"), Some("root")}

BrowseContentIds ==
  {None, Some(RootContentId), Some("COLLECTION-FOLDER-UUID"), Some(""),
   Some("media-source://jellyfin/COLLECTION-FOLDER-UUID")}

(***************************************************************************)
(* State.                                                                  *)
(***************************************************************************)
VARIABLES
  coordinator_data,      \* coordinator.data: None, or the dict session id -> snapshot
  last_update_success,   \* coordinator.last_update_success
  session_id,            \* self.session_id
  session_data,          \* self.session_data
  capabilities,          \* self.capabilities
  now_playing,           \* self.now_playing
  play_state,            \* self.play_state
  attr,                  \* the _attr_* fields _update_from_session_data sets
  delivered,             \* whether _handle_coordinator_update has run
  state_before,          \* the state shown before the last run of it
  last_command,          \* the last command method called, with its arguments
  last_call,             \* the last call the API client received
  backend_calls,         \* how many calls the API client received
  in_flight,             \* command methods that have not returned yet
  browse_log,            \* per browse request, the builder calls it made
  added                  \* the entities async_setup_entry handed to async_add_entities

coordinator_vars == <<coordinator_data, last_update_success>>

entity_vars ==
  <<session_id, session_data, capabilities, now_playing, play_state, attr, delivered,
    state_before>>

backend_vars == <<last_command, last_call, backend_calls, in_flight>>

browse_vars == <<browse_log>>

platform_vars == <<added>>

vars == <<coordinator_vars, entity_vars, backend_vars, browse_vars, platform_vars>>

(***************************************************************************)
(* JellyfinMediaPlayer: the projection and the derived properties.         *)
(***************************************************************************)
\* the content type without the override
outward_content_type_as_mapped(content_type) == content_type

\* the override of _update_from_session_data: an episode is shown as a show
outward_content_type(content_type) ==
  IF content_type = Some(MediaTypeEPISODE) THEN Some(MediaTypeTVSHOW) ELSE content_type

\* _update_from_session_data: the _attr_* fields for the given
\* self.session_data, self.now_playing and self.play_state
update_from_session_data(sd, np, ps) ==
  LET playing == sd # None /\ np # None
      content_type ==
        IF playing THEN Get(CONTENT_TYPE_MAP, np[1]["Type"]) ELSE None
  IN [is_volume_muted |->
        IF ps # None THEN GetOr(ps[1], "IsMuted", FALSE) ELSE FALSE,
      volume_level |->
        IF ps # None /\ "VolumeLevel" \in DOMAIN ps[1]
        THEN Some(FloatDiv(ps[1]["VolumeLevel"], VolumeScale)) ELSE None,
      media_content_type |-> outward_content_type(content_type),
      media_content_id |-> IF playing THEN Some(np[1]["Id"]) ELSE None,
      media_title |-> IF playing THEN Some(np[1]["Name"]) ELSE None,
      media_series_title |->
        IF playing THEN Get(np[1], "SeriesName") ELSE None,
      media_season |->
        IF playing THEN Get(np[1], "ParentIndexNumber") ELSE None,
      media_episode |-> IF playing THEN Get(np[1], "IndexNumber") ELSE None,
      media_duration |->
        IF playing
        THEN Some(FloatToInt(TicksToSeconds(np[1]["RunTimeTicks"])))
        ELSE None,
      media_position |->
        IF ps # None /\ "PositionTicks" \in DOMAIN ps[1]
        THEN Some(FloatToInt(TicksToSeconds(ps[1]["PositionTicks"])))
        ELSE None,
      media_position_updated_at |->
        IF playing THEN parse_datetime(sd[1]["LastPlaybackCheckIn"]) ELSE None,
      media_image_remotely_accessible |-> TRUE]

\* _update_from_session_data with SeriesName read by subscript
update_raises_series_subscript(sd, np, ps) ==
  /\ sd # None
  /\ np # None
  /\ \/ {"Type", "Id", "SeriesName", "Name", "RunTimeTicks"} \ DOMAIN np[1] # {}
     \/ "LastPlaybackCheckIn" \notin DOMAIN sd[1]

\* _update_from_session_data raises KeyError: a key it reads by subscript,
\* outside any test of its presence, is missing
update_raises(sd, np, ps) ==
  /\ sd # None
  /\ np # None
  /\ \/ {"Type", "Id", "Name", "RunTimeTicks"} \ DOMAIN np[1] # {}
     \/ "LastPlaybackCheckIn" \notin DOMAIN sd[1]

\* a read of media_image_url raises KeyError: the item has no ImageTags, or
\* no Id where an image of the item itself is chosen
media_image_url_raises ==
  /\ now_playing # None
  /\ \/ ITEM_KEY_IMAGE_TAGS \notin DOMAIN now_playing[1]
     \/ /\ "Id" \notin DOMAIN now_playing[1]
        /\ \/ "Backdrop" \in DOMAIN now_playing[1][ITEM_KEY_IMAGE_TAGS]
           \/ /\ "ParentBackdropItemId" \notin DOMAIN now_playing[1]
              /\ "Primary" \in DOMAIN now_playing[1][ITEM_KEY_IMAGE_TAGS]

\* media_image_url with the item's Primary tried before the parent's backdrop
media_image_url_primary_first ==
  IF now_playing = None THEN None
  ELSE IF "Backdrop" \in DOMAIN now_playing[1][ITEM_KEY_IMAGE_TAGS]
  THEN Some(artwork(now_playing[1]["Id"], "Backdrop", ArtworkMaxWidth))
  ELSE IF "Primary" \in DOMAIN now_playing[1][ITEM_KEY_IMAGE_TAGS]
  THEN Some(artwork(now_playing[1]["Id"], "Primary", ArtworkMaxWidth))
  ELSE IF "ParentBackdropItemId" \in DOMAIN now_playing[1]
  THEN Some(artwork(now_playing[1]["ParentBackdropItemId"], "Backdrop", ArtworkMaxWidth))
  ELSE None

\* the media_image_url property
media_image_url ==
  IF now_playing = None THEN None
  ELSE IF "Backdrop" \in DOMAIN now_playing[1][ITEM_KEY_IMAGE_TAGS]
  THEN Some(artwork(now_playing[1]["Id"], "Backdrop", ArtworkMaxWidth))
  ELSE IF "ParentBackdropItemId" \in DOMAIN now_playing[1]
  THEN Some(artwork(now_playing[1]["ParentBackdropItemId"], "Backdrop", ArtworkMaxWidth))
  ELSE IF "Primary" \in DOMAIN now_playing[1][ITEM_KEY_IMAGE_TAGS]
  THEN Some(artwork(now_playing[1]["Id"], "Primary", ArtworkMaxWidth))
  ELSE None

\* value in list
InList(v, list) == \E i \in DOMAIN list : list[i] = v

\* supported_features with the volume bits outside the media-control block
supported_features_flat ==
  LET commands == GetOr(capabilities, "SupportedCommands", <<>>)
      controllable == GetOr(capabilities, "SupportsMediaControl", FALSE)
  IN (IF controllable THEN MediaControlFeatures ELSE {})
     \cup (IF InList("Mute", commands) THEN {"VOLUME_MUTE"} ELSE {})
     \cup (IF InList("VolumeSet", commands) THEN {"VOLUME_SET"} ELSE {})
     \cup (IF play_state # None /\ play_state[1] # <<>>
              /\ GetOr(play_state[1], "CanSeek", FALSE)
           THEN {"SEEK"} ELSE {})

\* the supported_features property
supported_features ==
  LET commands == GetOr(capabilities, "SupportedCommands", <<>>)
      controllable == GetOr(capabilities, "SupportsMediaControl", FALSE)
  IN (IF controllable
      THEN MediaControlFeatures
           \cup (IF InList("Mute", commands) THEN {"VOLUME_MUTE"} ELSE {})
           \cup (IF InList("VolumeSet", commands) THEN {"VOLUME_SET"} ELSE {})
      ELSE {})
     \cup (IF play_state # None /\ play_state[1] # <<>>
              /\ GetOr(play_state[1], "CanSeek", FALSE)
           THEN {"SEEK"} ELSE {})

\* state with the pause flag read before the playing item
state_pause_first ==
  IF session_data = None THEN STATE_OFF
  ELSE IF play_state # None /\ GetOr(play_state[1], "IsPaused", FALSE)
  THEN STATE_PAUSED
  ELSE IF now_playing = None THEN STATE_IDLE
  ELSE STATE_PLAYING

\* the state property
state ==
  IF session_data = None THEN STATE_OFF
  ELSE IF now_playing = None THEN STATE_IDLE
  ELSE IF play_state # None /\ GetOr(play_state[1], "IsPaused", FALSE)
  THEN STATE_PAUSED
  ELSE STATE_PLAYING

\* available without the test of the session
available_while_refreshed == last_update_success

\* the available property
available == last_update_success /\ session_data # None

(***************************************************************************)
(* Construction and the coordinator callback.                              *)
(***************************************************************************)
\* no command has been called yet
backend_idle ==
  /\ last_command = None
  /\ last_call = None
  /\ backend_calls = 0
  /\ in_flight = 0
  /\ browse_log = <<>>

\* JellyfinMediaPlayer.__init__(coordinator, sid, snap)
construct(sid, snap) ==
  /\ session_id = sid
  /\ session_data = Some(snap)
  /\ capabilities = snap["Capabilities"]
  /\ now_playing = None
  /\ play_state = None
  /\ attr = update_from_session_data(Some(snap), None, None)
  /\ delivered = FALSE
  /\ state_before = None

\* MediaPlayerEntityDescription(key=session_id)
entity_description(sid) == [key |-> sid]

\* coordinator.data.items(): the session ids, each once, in the dict's order
items(data) ==
  CHOOSE keys \in [1..Cardinality(DOMAIN data) -> DOMAIN data] :
    \A i, j \in DOMAIN keys : i # j => keys[i] # keys[j]

\* async_setup_entry that skips a session only when it is the integration's
\* own device running Home Assistant
async_setup_entry_skips_own_client(data, device_id) ==
  LET kept == SelectSeq(items(data),
                        LAMBDA sid : \/ data[sid]["DeviceId"] # device_id
                                     \/ data[sid]["Client"] # "Home Assistant")
  IN [i \in DOMAIN kept |-> [session_id |-> kept[i], session_data |-> data[kept[i]]]]

\* async_setup_entry: the constructor calls the generator makes, in order
async_setup_entry(data, device_id) ==
  LET kept == SelectSeq(items(data),
                        LAMBDA sid : /\ data[sid]["DeviceId"] # device_id
                                     /\ data[sid]["Client"] # "Home Assistant")
  IN [i \in DOMAIN kept |-> [session_id |-> kept[i], session_data |-> data[kept[i]]]]

\* the platform is set up from the coordinator's data; the entity followed
\* from here on is one of those created, for a session of sids
setup(datas, sids) ==
  \E d \in datas :
    /\ d # None
    /\ LET made == async_setup_entry(d[1], client_device_id)
       IN /\ added = [i \in DOMAIN made |->
                        [key |-> entity_description(made[i].session_id).key,
                         session_id |-> made[i].session_id]]
          /\ \E i \in DOMAIN made :
               /\ made[i].session_id \in sids
               /\ construct(made[i].session_id, made[i].session_data)
    /\ coordinator_data = d
    /\ last_update_success = TRUE
    /\ backend_idle

\* the entity of session SessionId, as async_setup_entry creates it from the
\* coordinator's data
InitFrom(datas) == setup(datas, {SessionId})

\* _handle_coordinator_update that also takes the snapshot's Capabilities
handle_coordinator_update_takes_capabilities ==
  LET sd == IF coordinator_data' = None THEN None
            ELSE Get(coordinator_data'[1], session_id)
      np == IF sd = None THEN None ELSE Get(sd[1], "NowPlayingItem")
      ps == IF sd = None THEN None ELSE Get(sd[1], "PlayState")
  IN /\ session_data' = sd
     /\ capabilities' = IF sd = None THEN capabilities ELSE sd[1]["Capabilities"]
     /\ now_playing' = np
     /\ play_state' = ps
     /\ attr' = IF update_raises(sd, np, ps) THEN attr
                ELSE update_from_session_data(sd, np, ps)
     /\ delivered' = TRUE
     /\ state_before' = Some(state)
     /\ UNCHANGED session_id

\* _handle_coordinator_update that recomputes the _attr_ fields only while
\* the coordinator lists the session
handle_coordinator_update_refreshes_listed ==
  LET sd == IF coordinator_data' = None THEN None
            ELSE Get(coordinator_data'[1], session_id)
      np == IF sd = None THEN None ELSE Get(sd[1], "NowPlayingItem")
      ps == IF sd = None THEN None ELSE Get(sd[1], "PlayState")
  IN /\ session_data' = sd
     /\ now_playing' = np
     /\ play_state' = ps
     /\ attr' = IF sd = None \/ update_raises(sd, np, ps) THEN attr
                ELSE update_from_session_data(sd, np, ps)
     /\ delivered' = TRUE
     /\ state_before' = Some(state)
     /\ UNCHANGED <<session_id, capabilities>>

\* _handle_coordinator_update that keeps the last snapshot of a session the
\* coordinator no longer lists
handle_coordinator_update_keeps_session ==
  LET found == IF coordinator_data' = None THEN None
               ELSE Get(coordinator_data'[1], session_id)
      sd == IF found = None THEN session_data ELSE found
      np == IF found = None THEN None ELSE Get(found[1], "NowPlayingItem")
      ps == IF found = None THEN None ELSE Get(found[1], "PlayState")
  IN /\ session_data' = sd
     /\ now_playing' = np
     /\ play_state' = ps
     /\ attr' = IF update_raises(sd, np, ps) THEN attr
                ELSE update_from_session_data(sd, np, ps)
     /\ delivered' = TRUE
     /\ state_before' = Some(state)
     /\ UNCHANGED <<session_id, capabilities>>

\* _handle_coordinator_update, reading the coordinator as the step leaves it;
\* when _update_from_session_data raises, the _attr_ fields stay as they were
handle_coordinator_update ==
  LET sd == IF coordinator_data' = None THEN None
            ELSE Get(coordinator_data'[1], session_id)
      np == IF sd = None THEN None ELSE Get(sd[1], "NowPlayingItem")
      ps == IF sd = None THEN None ELSE Get(sd[1], "PlayState")
  IN /\ session_data' = sd
     /\ now_playing' = np
     /\ play_state' = ps
     /\ attr' = IF update_raises(sd, np, ps) THEN attr
                ELSE update_from_session_data(sd, np, ps)
     /\ delivered' = TRUE
     /\ state_before' = Some(state)
     /\ UNCHANGED <<session_id, capabilities>>

\* the coordinator calls _handle_coordinator_update; the callback's inputs
\* are the coordinator's data and whether its last refresh succeeded
coordinator_update(datas) ==
  \E d \in datas, ok \in BOOLEAN :
    /\ coordinator_data' = d
    /\ last_update_success' = ok
    /\ handle_coordinator_update
    /\ UNCHANGED <<backend_vars, browse_vars, platform_vars>>

(***************************************************************************)
(* The command methods.  Each makes one call on the API client and         *)
(* returns when the call does; none writes a field of the entity.          *)
(***************************************************************************)
\* the method is entered: it runs beside the callback until it returns
command(name, args) ==
  /\ backend_calls < MaxCalls
  /\ last_command' = Some([name |-> name, args |-> args])
  /\ in_flight' = in_flight + 1
  /\ UNCHANGED <<coordinator_vars, entity_vars, browse_vars, platform_vars>>

\* self.coordinator.api_client.jellyfin.<method>(self.session_id, *call_args)
remote(method, call_args) ==
  /\ last_call' = Some([method |-> method, session |-> session_id, args |-> call_args])
  /\ backend_calls' = backend_calls + 1

media_seek(position) ==
  /\ command("media_seek", <<position>>)
  /\ remote("remote_seek", <<FloatToInt(FloatMul(position, TicksPerSecond))>>)

\* media_pause that marks the player paused before the server reports it
media_pause_optimistic ==
  /\ backend_calls < MaxCalls
  /\ last_command' = Some([name |-> "media_pause", args |-> <<>>])
  /\ in_flight' = in_flight + 1
  /\ remote("remote_pause", <<>>)
  /\ play_state' = Some([IsPaused |-> TRUE])
  /\ UNCHANGED <<coordinator_vars, session_id, session_data, capabilities,
                 now_playing, attr, delivered, state_before, browse_vars, platform_vars>>

media_pause ==
  /\ command("media_pause", <<>>)
  /\ remote("remote_pause", <<>>)

media_play ==
  /\ command("media_play", <<>>)
  /\ remote("remote_unpause", <<>>)

media_play_pause ==
  /\ command("media_play_pause", <<>>)
  /\ remote("remote_playpause", <<>>)

media_stop ==
  /\ command("media_stop", <<>>)
  /\ remote("remote_stop", <<>>)

play_media(media_type, media_id) ==
  /\ command("play_media", <<media_type, media_id>>)
  /\ remote("remote_play_media", <<(<<media_id>>)>>)

set_volume_level(volume) ==
  /\ command("set_volume_level", <<volume>>)
  /\ remote("remote_set_volume", <<FloatToInt(FloatMul(volume, VolumeScale))>>)

\* mute_volume without the test of its argument
mute_volume_always_mutes(mute) ==
  /\ command("mute_volume", <<mute>>)
  /\ remote("remote_mute", <<>>)

mute_volume(mute) ==
  /\ command("mute_volume", <<mute>>)
  /\ IF mute THEN remote("remote_mute", <<>>) ELSE remote("remote_unmute", <<>>)

\* a command method returns
command_returns ==
  /\ in_flight > 0
  /\ in_flight' = in_flight - 1
  /\ UNCHANGED <<coordinator_vars, entity_vars, last_command, last_call, backend_calls,
                 browse_vars, platform_vars>>

(***************************************************************************)
(* Browsing.                                                               *)
(***************************************************************************)
\* a call of a builder of .browse_media; hass, the API client and the user
\* id, the same in every call, are left out of the arguments
builder_call(builder, args) == [builder |-> builder, args |-> args]

\* async_browse_media with the root chosen for a missing content id only
async_browse_media_root_for_none(media_content_type, media_content_id) ==
  /\ Len(browse_log) < MaxBrowse
  /\ browse_log' =
       Append(browse_log,
              [request |-> <<media_content_type, media_content_id>>,
               calls |->
                 IF media_content_id = None
                 THEN <<builder_call("build_root_response", <<>>)>>
                 ELSE <<builder_call("build_item_response",
                                     <<media_content_type, media_content_id>>)>>])
  /\ UNCHANGED <<coordinator_vars, entity_vars, backend_vars, platform_vars>>

\* async_browse_media(media_content_type, media_content_id)
async_browse_media(media_content_type, media_content_id) ==
  /\ Len(browse_log) < MaxBrowse
  /\ browse_log' =
       Append(browse_log,
              [request |-> <<media_content_type, media_content_id>>,
               calls |->
                 IF media_content_id = None \/ media_content_id = Some(RootContentId)
                 THEN <<builder_call("build_root_response", <<>>)>>
                 ELSE <<builder_call("build_item_response",
                                     <<media_content_type, media_content_id>>)>>])
  /\ UNCHANGED <<coordinator_vars, entity_vars, backend_vars, platform_vars>>

(***************************************************************************)
(* Specifications.                                                         *)
(***************************************************************************)
\* the entity under coordinator updates and commands
Init == InitFrom(CoreDatas)

Next ==
  \/ coordinator_update(CoreDatas)
  \/ \E p \in CoreSeekPositions : media_seek(p)
  \/ media_pause
  \/ media_play
  \/ media_play_pause
  \/ media_stop
  \/ \E id \in MediaIds : play_media("movie", id)
  \/ \E v \in CoreVolumeArguments : set_volume_level(v)
  \/ \E m \in BOOLEAN : mute_volume(m)
  \/ command_returns

Spec == Init /\ [][Next]_vars

\* the artwork resolver over every kind of playing item
ArtworkInit == InitFrom(ArtworkDatas)

ArtworkNext == coordinator_update(ArtworkDatas)

ArtworkSpec == ArtworkInit /\ [][ArtworkNext]_vars

\* the feature mask over every capabilities record and play state
FeatureInit == InitFrom(FeatureDatas)

FeatureNext == coordinator_update(FeatureUpdates)

FeatureSpec == FeatureInit /\ [][FeatureNext]_vars

\* the projection over snapshots that lack optional fields
PartialInit == InitFrom({Some(SessionId :> Session(CapsControl, None, None))})

PartialNext == coordinator_update(PartialDatas)

PartialSpec == PartialInit /\ [][PartialNext]_vars

\* the content type over items of every type
TypedInit == InitFrom(TypedDatas)

TypedNext == coordinator_update(TypedDatas)

TypedSpec == TypedInit /\ [][TypedNext]_vars

\* the platform set up from any listing, then coordinator updates
SetupInit == setup(SetupDatas, DOMAIN SetupSessions)

SetupNext == coordinator_update(SetupDatas)

SetupSpec == SetupInit /\ [][SetupNext]_vars

\* browse requests
BrowseInit == InitFrom({Some(SessionId :> Session(CapsControl, None, None))})

BrowseNext ==
  \E ty \in BrowseContentTypes, id \in BrowseContentIds : async_browse_media(ty, id)

BrowseSpec == BrowseInit /\ [][BrowseNext]_vars

\* the tick conversion over the tick counts
TickInit == InitFrom(TickDatas)

TickNext == coordinator_update(TickDatas)

TickSpec == TickInit /\ [][TickNext]_vars

\* media_seek over the seek positions
SeekInit ==
  InitFrom({Some(SessionId :> Session(CapsControl, Some(MovieItem), Some(PlayingState)))})

SeekNext ==
  \/ \E p \in SeekPositions : media_seek(p)
  \/ command_returns

SeekSpec == SeekInit /\ [][SeekNext]_vars

\* set_volume_level over the volume arguments and over the volume the entity
\* shows, for a server volume that stays as it is
VolumeInit == InitFrom(VolumeDatas)

VolumeNext ==
  \/ coordinator_update({coordinator_data})
  \/ \E v \in VolumeArguments \cup {attr.volume_level[i] : i \in DOMAIN attr.volume_level} :
       set_volume_level(v)
  \/ command_returns

VolumeSpec == VolumeInit /\ [][VolumeNext]_vars

(***************************************************************************)
(* Properties.                                                             *)
(***************************************************************************)
\* the session's current snapshot: the coordinator's entry for the session id
snapshot ==
  IF coordinator_data = None THEN None ELSE Get(coordinator_data[1], session_id)

snapshot_item == IF snapshot = None THEN None ELSE Get(snapshot[1], "NowPlayingItem")

snapshot_play_state == IF snapshot = None THEN None ELSE Get(snapshot[1], "PlayState")

\* the flag is present in the snapshot's PlayState and true
snapshot_flag(key) ==
  /\ snapshot_play_state # None
  /\ key \in DOMAIN snapshot_play_state[1]
  /\ snapshot_play_state[1][key] = TRUE

\* what the entity exposes
exposed == <<state, attr, supported_features, available, media_image_url>>

\* the last command and the call it made
called(name) == last_command # None /\ last_command[1].name = name

argument == last_command[1].args[1]

sent(method, call_args) ==
  /\ last_call # None
  /\ last_call[1].method = method
  /\ last_call[1].session = session_id
  /\ last_call[1].args = call_args

\* C1: once a coordinator update has been delivered, the state is OFF exactly
\* when the session has no snapshot, else IDLE exactly when the snapshot has
\* no NowPlayingItem, else PAUSED exactly when its PlayState has IsPaused
\* true, else PLAYING; no other value is exposed.
StateByStrictPriority ==
  delivered =>
    /\ state \in {STATE_OFF, STATE_IDLE, STATE_PAUSED, STATE_PLAYING}
    /\ state = STATE_OFF <=> snapshot = None
    /\ state = STATE_IDLE <=> (snapshot # None /\ snapshot_item = None)
    /\ state = STATE_PAUSED <=> (snapshot_item # None /\ snapshot_flag("IsPaused"))
    /\ state = STATE_PLAYING <=> (snapshot_item # None /\ ~snapshot_flag("IsPaused"))

\* C1 witness: an update delivered a snapshot with an item and a paused
\* PlayState, and the state is PAUSED
PausedAfterUpdate ==
  delivered /\ snapshot_item # None /\ snapshot_flag("IsPaused") /\ state = STATE_PAUSED

\* C2: in every reachable state, the one right after construction included,
\* the state and the media fields are the projection of the session's current
\* snapshot: what an entity shows that received the snapshot in an update.
ExposedIsProjectionOfSnapshot ==
  /\ attr = update_from_session_data(snapshot, snapshot_item, snapshot_play_state)
  /\ state = (IF snapshot = None THEN STATE_OFF
              ELSE IF snapshot_item = None THEN STATE_IDLE
              ELSE IF snapshot_flag("IsPaused") THEN STATE_PAUSED
              ELSE STATE_PLAYING)

\* C3: whenever the snapshot has no NowPlayingItem (or there is no snapshot),
\* the media position and the time it was updated at are both None, whatever
\* the PlayState holds.
NoPositionWithoutItem ==
  (delivered /\ snapshot_item = None) =>
    /\ attr.media_position = None
    /\ attr.media_position_updated_at = None

\* C4: media_image_url is None without a playing item; else the item's
\* Backdrop when its tags have one; else the backdrop of ParentBackdropItemId
\* when the item has that field; else the item's Primary when its tags have
\* one; else None.
ArtworkByFirstMatch ==
  delivered =>
    LET item == snapshot_item
        tags == DOMAIN item[1][ITEM_KEY_IMAGE_TAGS]
        parent == "ParentBackdropItemId" \in DOMAIN item[1]
        url(id, art) == Some(artwork(id, art, 100))
    IN /\ item = None => media_image_url = None
       /\ item # None =>
            /\ "Backdrop" \in tags => media_image_url = url(item[1]["Id"], "Backdrop")
            /\ ("Backdrop" \notin tags /\ parent) =>
                 media_image_url = url(item[1]["ParentBackdropItemId"], "Backdrop")
            /\ ("Backdrop" \notin tags /\ ~parent /\ "Primary" \in tags) =>
                 media_image_url = url(item[1]["Id"], "Primary")
            /\ ("Backdrop" \notin tags /\ ~parent /\ "Primary" \notin tags) =>
                 media_image_url = None

\* C4 witness: an item with a Backdrop tag and a ParentBackdropItemId shows
\* its own backdrop
OwnBackdropBeforeParent ==
  /\ delivered
  /\ snapshot_item # None
  /\ "Backdrop" \in DOMAIN snapshot_item[1][ITEM_KEY_IMAGE_TAGS]
  /\ "ParentBackdropItemId" \in DOMAIN snapshot_item[1]
  /\ media_image_url = Some(artwork(snapshot_item[1]["Id"], "Backdrop", 100))

\* C5: the mask has the five media-control bits exactly when the entity's
\* capabilities have SupportsMediaControl true, the mute and volume-set bits
\* exactly when they also list "Mute" and "VolumeSet", and the seek bit
\* exactly when the current PlayState has CanSeek true; without media control
\* and with CanSeek the mask is the seek bit alone.
FeatureMaskByContribution ==
  delivered =>
    LET controllable ==
          /\ "SupportsMediaControl" \in DOMAIN capabilities
          /\ capabilities["SupportsMediaControl"] = TRUE
        listed(c) ==
          /\ "SupportedCommands" \in DOMAIN capabilities
          /\ \E i \in DOMAIN capabilities["SupportedCommands"] :
               capabilities["SupportedCommands"][i] = c
        can_seek == snapshot_flag("CanSeek")
    IN /\ supported_features \subseteq AllFeatures
       /\ \A b \in MediaControlFeatures : b \in supported_features <=> controllable
       /\ "VOLUME_MUTE" \in supported_features <=> (controllable /\ listed("Mute"))
       /\ "VOLUME_SET" \in supported_features <=> (controllable /\ listed("VolumeSet"))
       /\ "SEEK" \in supported_features <=> can_seek
       /\ (~controllable /\ can_seek) => supported_features = {"SEEK"}

\* C5 witness: no media control, "Mute" listed, CanSeek true, and the mask is
\* the seek bit alone
SeekBitAlone ==
  /\ delivered
  /\ GetOr(capabilities, "SupportsMediaControl", TRUE) = FALSE
  /\ InList("Mute", GetOr(capabilities, "SupportedCommands", <<>>))
  /\ snapshot_flag("CanSeek")
  /\ supported_features = {"SEEK"}

\* C6: the entity is available exactly when the coordinator's last refresh
\* succeeded and the session has a snapshot; an IDLE entity is available
\* after a successful refresh, an OFF entity never is.
AvailableIffRefreshedAndPresent ==
  /\ available <=> (last_update_success /\ snapshot # None)
  /\ (state = STATE_IDLE /\ last_update_success) => available
  /\ state = STATE_OFF => ~available

\* C6 witness: an update delivered a snapshot without an item, and the IDLE
\* entity is available
IdleIsAvailable ==
  delivered /\ snapshot # None /\ snapshot_item = None /\ state = STATE_IDLE /\ available

\* C7: what the entity exposes changes only in a step that delivers a
\* coordinator update; a step in which a command is called or returns leaves
\* it as it was.
CommandsLeaveExposedStateAlone ==
  [][exposed' # exposed => (backend_vars' = backend_vars /\ delivered')]_vars

\* C7 witness: two commands are waiting, media_pause the later one, and the
\* entity still shows PLAYING
PauseInFlightStillPlaying ==
  in_flight = 2 /\ called("media_pause") /\ state = STATE_PLAYING

\* C8: media_seek(p) sends remote_seek with round(p * 10000000).
SeekSendsRoundedTicks ==
  called("media_seek") =>
    sent("remote_seek", <<FloatRound(FloatMul(argument, 10000000))>>)

\* C9: set_volume_level(v) sends remote_set_volume with round(v * 100).
SetVolumeSendsRoundedPercent ==
  called("set_volume_level") =>
    sent("remote_set_volume", <<FloatRound(FloatMul(argument, 100))>>)

\* C10: a snapshot with VolumeLevel n in 0..100 shows the volume n / 100, and
\* set_volume_level of the shown volume sends remote_set_volume with n.
VolumeRoundTrip ==
  (delivered /\ snapshot_play_state # None
     /\ "VolumeLevel" \in DOMAIN snapshot_play_state[1]) =>
    LET lvl == snapshot_play_state[1]["VolumeLevel"]
    IN lvl \in 0..100 =>
         /\ attr.volume_level = Some(FloatDiv(lvl, 100))
         /\ (called("set_volume_level") /\ argument = FloatDiv(lvl, 100)) =>
              sent("remote_set_volume", <<lvl>>)

\* the snapshot has every field the code reads by subscript
required_present ==
  snapshot_item # None =>
    /\ {"Type", "Id", "Name", "RunTimeTicks", "ImageTags"} \subseteq DOMAIN snapshot_item[1]
    /\ "LastPlaybackCheckIn" \in DOMAIN snapshot[1]

\* the field is absent from the snapshot's item, or from its PlayState
item_lacks(key) == snapshot_item = None \/ key \notin DOMAIN snapshot_item[1]

play_state_lacks(key) ==
  snapshot_play_state = None \/ key \notin DOMAIN snapshot_play_state[1]

\* C11: for a delivered snapshot that lacks any of its optional fields,
\* neither the update nor a read of media_image_url raises, every field
\* whose source is absent is None, is_volume_muted is false without IsMuted,
\* the seek bit is clear without CanSeek, and no parent backdrop is shown
\* without ParentBackdropItemId.
TotalOverOptionalFields ==
  (delivered /\ required_present) =>
    /\ ~update_raises(session_data, now_playing, play_state)
    /\ ~media_image_url_raises
    /\ state \in {STATE_OFF, STATE_IDLE, STATE_PAUSED, STATE_PLAYING}
    /\ supported_features \subseteq AllFeatures
    /\ snapshot_item = None =>
         /\ attr.media_content_type = None
         /\ attr.media_content_id = None
         /\ attr.media_title = None
         /\ attr.media_duration = None
         /\ attr.media_position_updated_at = None
         /\ media_image_url = None
    /\ item_lacks("SeriesName") => attr.media_series_title = None
    /\ item_lacks("ParentIndexNumber") => attr.media_season = None
    /\ item_lacks("IndexNumber") => attr.media_episode = None
    /\ (snapshot_item # None /\ item_lacks("ParentBackdropItemId")) =>
         media_image_url = Some(artwork(snapshot_item[1]["Id"], "Primary", 100))
    /\ play_state_lacks("PositionTicks") => attr.media_position = None
    /\ play_state_lacks("VolumeLevel") => attr.volume_level = None
    /\ play_state_lacks("IsMuted") => attr.is_volume_muted = FALSE
    /\ play_state_lacks("CanSeek") => "SEEK" \notin supported_features
    /\ (snapshot_item # None /\ play_state_lacks("IsPaused")) => state = STATE_PLAYING

\* C11 witness: a delivered snapshot whose item and PlayState are present and
\* lack every optional field, projected without raising
BareSnapshotProjected ==
  /\ delivered
  /\ required_present
  /\ snapshot_item # None
  /\ DOMAIN snapshot_item[1] \cap OptionalItemFields = {}
  /\ snapshot_play_state = Some(<<>>)
  /\ attr.media_title = Some("EPISODE")
  /\ attr.media_series_title = None
  /\ attr.media_position = None
  /\ state = STATE_PLAYING

\* the media fields, the volume and the image are all unknown
media_cleared ==
  /\ attr.media_content_type = None
  /\ attr.media_content_id = None
  /\ attr.media_title = None
  /\ attr.media_series_title = None
  /\ attr.media_season = None
  /\ attr.media_episode = None
  /\ attr.media_duration = None
  /\ attr.media_position = None
  /\ attr.media_position_updated_at = None
  /\ attr.volume_level = None
  /\ attr.is_volume_muted = FALSE
  /\ media_image_url = None

\* C12: a step that takes the session's snapshot from one with an item that
\* is not paused (delivered by an update) to absent takes the state from
\* PLAYING to OFF and clears the media fields, all in that one step.
PlayingToOffDirectly ==
  [][(delivered /\ snapshot_item # None /\ ~snapshot_flag("IsPaused") /\ snapshot' = None)
       => (state = STATE_PLAYING /\ state' = STATE_OFF /\ media_cleared')]_vars

\* C12 witness: the entity showed PLAYING before the last update and shows
\* OFF with cleared media fields after it
EndedWhilePlaying ==
  state_before = Some(STATE_PLAYING) /\ snapshot = None /\ state = STATE_OFF /\ media_cleared

\* C13: the content type shown is never the episode type; after an update it
\* is the show type when the table maps the item's Type to episode, the
\* table's value for every other Type it maps, and None for a Type it does
\* not map and without an item.
EpisodeShownAsShow ==
  /\ attr.media_content_type # Some("episode")
  /\ delivered =>
       /\ snapshot_item = None => attr.media_content_type = None
       /\ snapshot_item # None =>
            LET ty == snapshot_item[1]["Type"]
            IN /\ ty \notin DOMAIN CONTENT_TYPE_MAP => attr.media_content_type = None
               /\ (ty \in DOMAIN CONTENT_TYPE_MAP /\ CONTENT_TYPE_MAP[ty] = "episode") =>
                    attr.media_content_type = Some("tvshow")
               /\ (ty \in DOMAIN CONTENT_TYPE_MAP /\ CONTENT_TYPE_MAP[ty] # "episode") =>
                    attr.media_content_type = Some(CONTENT_TYPE_MAP[ty])

\* C13 witness: an Episode item was delivered and is shown as a show
EpisodeDeliveredAsShow ==
  /\ delivered
  /\ snapshot_item # None
  /\ snapshot_item[1]["Type"] = "Episode"
  /\ attr.media_content_type = Some("tvshow")

\* the endpoint and the arguments the command is to reach
endpoint_matches(cmd, call) ==
  /\ cmd.name = "media_seek" => call.method = "remote_seek"
  /\ cmd.name = "media_pause" => (call.method = "remote_pause" /\ call.args = <<>>)
  /\ cmd.name = "media_play" => (call.method = "remote_unpause" /\ call.args = <<>>)
  /\ cmd.name = "media_play_pause" => (call.method = "remote_playpause" /\ call.args = <<>>)
  /\ cmd.name = "media_stop" => (call.method = "remote_stop" /\ call.args = <<>>)
  /\ cmd.name = "play_media" =>
       (call.method = "remote_play_media" /\ call.args = <<(<<cmd.args[2]>>)>>)
  /\ cmd.name = "set_volume_level" => call.method = "remote_set_volume"
  /\ cmd.name = "mute_volume" =>
       /\ call.method = (IF cmd.args[1] THEN "remote_mute" ELSE "remote_unmute")
       /\ call.args = <<>>

\* C14: a step in which a command is called makes exactly one backend call,
\* for this entity's session id, on the endpoint of the command; no other
\* step makes a call.
OneCallPerCommand ==
  [][IF in_flight' = in_flight + 1
     THEN /\ backend_calls' = backend_calls + 1
          /\ (last_call')[1].session = session_id
          /\ endpoint_matches((last_command')[1], (last_call')[1])
     ELSE UNCHANGED <<backend_calls, last_call>>]_vars

\* C14 witness: two commands were called and two calls made, the later one
\* mute_volume(false) on remote_unmute
UnmuteCalledOnce ==
  /\ backend_calls = 2
  /\ called("mute_volume")
  /\ argument = FALSE
  /\ sent("remote_unmute", <<>>)

\* C15: every browse request made exactly one builder call: the root builder
\* exactly when its content id is None or "media-source://jellyfin", else
\* the item builder with the request's content type and content id.
BrowseForwardsToOneBuilder ==
  \A i \in DOMAIN browse_log :
    LET ty == browse_log[i].request[1]
        id == browse_log[i].request[2]
        calls == browse_log[i].calls
        root == id = <<>> \/ id = <<"media-source://jellyfin">>
    IN /\ Len(calls) = 1
       /\ calls[1].builder \in {"build_root_response", "build_item_response"}
       /\ calls[1].builder = "build_root_response" <=> root
       /\ ~root => calls[1].args = <<ty, id>>

\* C15 witness: a request with the root content id went to the root builder
\* and one with another content id to the item builder, type and id as given
BrowsedRootThenItem ==
  /\ Len(browse_log) = 2
  /\ browse_log[1].request = <<None, Some("media-source://jellyfin")>>
  /\ browse_log[1].calls = <<builder_call("build_root_response", <<>>)>>
  /\ browse_log[2].request = <<Some("collection"), Some("COLLECTION-FOLDER-UUID")>>
  /\ browse_log[2].calls =
       <<builder_call("build_item_response",
                      <<Some("collection"), Some("COLLECTION-FOLDER-UUID")>>)>>

\* C16: after an update, media_duration is the whole seconds of RunTimeTicks
\* whenever the snapshot has an item, and media_position the whole seconds of
\* PositionTicks whenever its PlayState has them, for tick counts of up to a
\* year.
TicksFloorToSeconds ==
  delivered =>
    \A p \in TickSeconds \X TickRests :
      /\ (snapshot_item # None /\ snapshot_item[1]["RunTimeTicks"] = TickTable[p]) =>
           attr.media_duration = Some(p[1])
      /\ (~play_state_lacks("PositionTicks")
            /\ snapshot_play_state[1]["PositionTicks"] = TickTable[p]) =>
           attr.media_position = Some(p[1])

\* C16 witness: RunTimeTicks and PositionTicks of 10000000000 are shown as
\* 1000 seconds
ThousandSeconds ==
  /\ delivered
  /\ snapshot_item # None
  /\ snapshot_item[1]["RunTimeTicks"] = MulBits[BitsOf[1000000], 10000, 0]
  /\ ~play_state_lacks("PositionTicks")
  /\ snapshot_play_state[1]["PositionTicks"] = MulBits[BitsOf[1000000], 10000, 0]
  /\ attr.media_duration = Some(1000)
  /\ attr.media_position = Some(1000)

\* the bits of the mask that a Capabilities record gives
capability_bits_of(caps) ==
  IF "SupportsMediaControl" \in DOMAIN caps /\ caps["SupportsMediaControl"] = TRUE
  THEN MediaControlFeatures
       \cup {"VOLUME_MUTE" : i \in {j \in DOMAIN GetOr(caps, "SupportedCommands", <<>>) :
                                     caps["SupportedCommands"][j] = "Mute"}}
       \cup {"VOLUME_SET" : i \in {j \in DOMAIN GetOr(caps, "SupportedCommands", <<>>) :
                                    caps["SupportedCommands"][j] = "VolumeSet"}}
  ELSE {}

\* the bits of the mask shown, the seek bit aside
capability_bits == supported_features \ {"SEEK"}

\* C17: the constructed entity shows the capability bits of the snapshot it
\* was constructed from, and no step changes them, whatever Capabilities the
\* later snapshots carry and whether or not there is a snapshot.
CapabilityBitsFixedAtCreation ==
  /\ [](~delivered => capability_bits = capability_bits_of(snapshot[1]["Capabilities"]))
  /\ [][capability_bits' = capability_bits]_vars

\* C17 witness: an update delivered a snapshot whose Capabilities grant no
\* media control, and the entity still shows the media-control bits
ControlBitsOutliveCapabilities ==
  /\ delivered
  /\ snapshot # None
  /\ capability_bits_of(snapshot[1]["Capabilities"]) = {}
  /\ capability_bits = MediaControlFeatures \cup {"VOLUME_MUTE", "VOLUME_SET"}

\* C18: whenever the state is OFF, every media field and the volume level
\* are unknown, the player is not muted, there is no artwork address and the
\* mask lacks the seek bit, whatever the earlier snapshots held.
NothingStaleWhenOff ==
  state = STATE_OFF => media_cleared /\ "SEEK" \notin supported_features

\* C18 witness: the session ended while an item was shown as playing
OffAfterPlaying ==
  /\ delivered
  /\ state = STATE_OFF
  /\ state_before = Some(STATE_PLAYING)
  /\ media_cleared

\* whether a snapshot is of a session that gets an entity
eligible(snap) ==
  snap["DeviceId"] # client_device_id /\ snap["Client"] # "Home Assistant"

\* the entry of the coordinator's data for the entity's session
tracked_entry ==
  IF coordinator_data = None THEN None
  ELSE IF session_id \in DOMAIN coordinator_data[1]
       THEN Some(coordinator_data[1][session_id]) ELSE None

\* C19: at setup each listed session that is neither of the integration's own
\* device nor of a Home Assistant client gets exactly one entity and every
\* other session none, a listing without such a session gives no entity, each
\* entity's key is its session id, and after every update the entity holds
\* the coordinator's entry for its own session id, or nothing when that
\* entry is missing.
SetupOneEntityPerEligibleSession ==
  /\ ~delivered =>
       /\ \A sid \in DOMAIN coordinator_data[1] :
            Cardinality({i \in DOMAIN added : added[i].session_id = sid})
              = IF eligible(coordinator_data[1][sid]) THEN 1 ELSE 0
       /\ \A i \in DOMAIN added : added[i].session_id \in DOMAIN coordinator_data[1]
  /\ \A d \in SetupDatas \ {None} :
       (\A sid \in DOMAIN d[1] : ~eligible(d[1][sid]))
         => async_setup_entry(d[1], client_device_id) = <<>>
  /\ \A i \in DOMAIN added : added[i].key = added[i].session_id
  /\ \E i \in DOMAIN added : added[i].session_id = session_id
  /\ delivered => session_data = tracked_entry

\* C19 witness: set up from a listing of all four sessions, two entities
\* exist, and the one of the other player holds its own entry after an update
\* that also lists the first player
TwoEntitiesEachTrackingItsOwn ==
  /\ Len(added) = 2
  /\ delivered
  /\ session_id = OtherSessionId
  /\ coordinator_data # None
  /\ DOMAIN coordinator_data[1] = DOMAIN SetupSessions
  /\ session_data = Some(coordinator_data[1][OtherSessionId])
  /\ state = STATE_PAUSED
====
